---- MODULE Spec2Model ----
(***************************************************************************)
(* A model of glazier's backend utilities (src/common_util.rs):            *)
(*   - shared_queue / SharedEnqueuer / SharedDequeuer,                     *)
(*   - Counter,                                                            *)
(*   - ClickCounter,                                                       *)
(* and of its xkb wrapper (src/backend/shared/xkb/mod.rs):                 *)
(*   - Context, Keymap, State and the key translation of State.            *)
(* Every component has its own specification over its own variables; the   *)
(* other components' variables stay at their initial values.               *)
(***************************************************************************)
EXTENDS Integers, Sequences, FiniteSets, Bags, TLC

(***************************************************************************)
(* Bounds of the model.                                                    *)
(***************************************************************************)
\* Queue operations (enqueue and try_dequeue calls) started in one behaviour.
MaxOps == 6
\* Live wrapper values of one kind (Context, Keymap or State) at a time.
MaxHandles == 2
\* Length of the longest buffer handed to keymap_from_slice.
MaxBuf == 3
\* Width in bits of the modelled AtomicU64 (64 in the program).
CounterWidth == 3

\* Threads holding (or able to receive) a SharedEnqueuer, and the one thread
\* that owns the SharedDequeuer.
Producers == {"p1", "p2"}
Consumer == "c"
QueueThreads == Producers \cup {Consumer}
\* The thread handed the SharedEnqueuer that shared_queue() returns.
FirstProducer == "p1"
\* Mutex<bool> owner when the mutex is unlocked.
NoOne == "none"

\* Option<T>.
None == <<>>
Some(x) == <<x>>

\* Result<T, TryRecvError> of Receiver::try_recv.
RecvOk(x) == <<"Ok", x>>
RecvEmpty == <<"Empty">>
RecvDisconnected == <<"Disconnected">>
NoResult == <<"unset">>

VARIABLES
    \* shared_queue
    chan,         \* the mpsc channel: the items sent and not yet received
    empty_flag,   \* the bool inside Arc<Mutex<bool>>
    holder,       \* the thread holding the MutexGuard, or NoOne
    poisoned,     \* the mutex is poisoned (a holder panicked)
    receiver,     \* the SharedDequeuer (and its mpsc::Receiver) is alive
    sender,       \* sender[p]: thread p holds a live SharedEnqueuer
    pc,           \* pc[t]: where thread t is inside enqueue / try_dequeue
    lenBefore,    \* lenBefore[p]: channel length seen by p's send (history)
    result,       \* try_dequeue's local `result`
    log,          \* history: the completed operations, in completion order
    wakePending,  \* the event loop has been asked to run the dequeue loop
    draining,     \* the event loop is inside its dequeue loop
    \* Counter
    counter,      \* the AtomicU64
    cpc,          \* cpc[t]: where thread t is inside next / next_nonzero
    reg,          \* reg[t]: the value t's fetch_add returned
    fetched,      \* history: the fetch_add results, in the order they happened
    returned,     \* history: the bag of the values the calls returned
    last_returned, \* history: the value returned last, None before
    overlapped,   \* history: two calls have been in progress at once
    \* ClickCounter
    max_interval, \* Cell<Duration>, in milliseconds
    max_distance, \* Cell<f64>
    last_click,   \* Cell<Instant>, in milliseconds
    last_pos,     \* Cell<Point>
    click_count,  \* Cell<u8>
    now,          \* the clock Instant::now() reads
    clicked,      \* the value the last count_for_click returned, None before
    saturated,    \* history: the last count_for_click added to a count of 255
    prev_click,   \* history: Some(<<time, position>>) of the last call, None before
    example,      \* history: how much of the run (0,0)@0, (1,0)@100, (100,0)@150
                  \* the calls made so far have followed, with the default thresholds
    \* xkb
    refcnt,       \* per kind, the reference count inside the native object
    handles,      \* per kind, the number of live wrapper values
    native,       \* per kind, "absent", "live", "released" or "misused"
    keymap,       \* the compiled xkb_keymap (NoKeymap before the first compile)
    xkb_state,    \* the six components inside the xkb_state (NoState before)
    cached,       \* the ModsIndices values carried by the live State wrappers
    pushed,       \* history: Some(mask) of the last update_xkb_state, else None
    event,        \* Some(arguments and KeyEvent) of the last key_event since
                  \* the last update_xkb_state, else None
    compiled      \* Some(buffer and outcome) when the operation just made is
                  \* keymap_from_slice, else None

queueVars == <<chan, empty_flag, holder, poisoned, receiver, sender, pc,
               lenBefore, result, log>>
wakeVars == <<wakePending, draining>>
counterVars == <<counter, cpc, reg, fetched, returned, last_returned, overlapped>>
clickVars == <<max_interval, max_distance, last_click, last_pos, click_count,
               now, clicked, saturated, prev_click, example>>
xkbVars == <<refcnt, handles, native, keymap, xkb_state, cached, pushed, event,
             compiled>>
vars == <<queueVars, wakeVars, counterVars, clickVars, xkbVars>>

(***************************************************************************)
(* shared_queue                                                            *)
(***************************************************************************)

\* shared_queue(): an empty channel, the flag true, one enqueuer, one dequeuer.
QueueInit ==
    /\ chan = <<>>
    /\ empty_flag = TRUE
    /\ holder = NoOne
    /\ poisoned = FALSE
    /\ receiver = TRUE
    /\ sender = [p \in Producers |-> p = FirstProducer]
    /\ pc = [t \in QueueThreads |-> "idle"]
    /\ lenBefore = [p \in Producers |-> 0]
    /\ result = NoResult
    /\ log = <<>>

WakeInit ==
    /\ wakePending = FALSE
    /\ draining = FALSE

\* Operations in progress, and the bound on operations started.
InFlight == {t \in QueueThreads : pc[t] \notin {"idle", "wake", "panicked"}}
MayStart == Len(log) + Cardinality(InFlight) < MaxOps

\* The item thread p enqueues: its name and the number of the call.
EnqueuesBy(p) == {i \in DOMAIN log : log[i].op = "enq" /\ log[i].who = p}
Item(p) == <<p, Cardinality(EnqueuesBy(p)) + 1>>

\* Mutex::lock() blocks until no other thread holds the guard.
CanLockAlways(t) == TRUE
CanLock(t) == holder = NoOne

\* mpsc::Sender::send on a connected channel: the item goes to the back.
SendFront(q, x) == <<x>> \o q
Send(q, x) == Append(q, x)

\* Receiver::try_recv: the front item; Disconnected when the channel is empty
\* and every Sender is gone; Empty otherwise.
LiveSenders == {p \in Producers : sender[p]}
TryRecv(q) ==
    IF q # <<>> THEN RecvOk(Head(q))
    ELSE IF LiveSenders = {} THEN RecvDisconnected
    ELSE RecvEmpty
AfterRecv(q) == IF q # <<>> THEN Tail(q) ELSE q

\* enqueue, line 104: self.empty_flag.lock().unwrap()
EnqueueLock(p) ==
    /\ pc[p] = "idle"
    /\ sender[p]
    /\ CanLock(p)
    /\ IF poisoned
       THEN /\ pc' = [pc EXCEPT ![p] = "panicked"]
            /\ sender' = [sender EXCEPT ![p] = FALSE]
            /\ UNCHANGED holder
       ELSE /\ pc' = [pc EXCEPT ![p] = "enq_locked"]
            /\ holder' = p
            /\ UNCHANGED sender
    /\ UNCHANGED <<chan, empty_flag, poisoned, receiver, lenBefore, result, log>>

\* enqueue, line 106: self.sender.send(t).unwrap(). send fails when the
\* Receiver is gone; the unwrap then panics with the guard held, which
\* poisons and unlocks the mutex and unwinds the thread.
EnqueueSend(p) ==
    /\ pc[p] = "enq_locked"
    /\ IF receiver
       THEN /\ chan' = Send(chan, Item(p))
            /\ lenBefore' = [lenBefore EXCEPT ![p] = Len(chan)]
            /\ pc' = [pc EXCEPT ![p] = "enq_sent"]
            /\ UNCHANGED <<holder, poisoned, sender>>
       ELSE /\ pc' = [pc EXCEPT ![p] = "panicked"]
            /\ poisoned' = TRUE
            /\ holder' = IF holder = p THEN NoOne ELSE holder
            /\ sender' = [sender EXCEPT ![p] = FALSE]
            /\ UNCHANGED <<chan, lenBefore>>
    /\ UNCHANGED <<empty_flag, receiver, result, log>>

\* enqueue, lines 108-111: was_empty = *empty_flag; *empty_flag = false;
\* was_empty is returned and the guard is dropped.
FlagAfterEnqueueKept(old) == old
FlagAfterEnqueue(old) == FALSE

EnqueueReturn(p, next) ==
    /\ pc[p] = "enq_sent"
    /\ LET was_empty == empty_flag
       IN /\ empty_flag' = FlagAfterEnqueue(empty_flag)
          /\ log' = Append(log, [op |-> "enq", who |-> p, item |-> Item(p),
                                 lenBefore |-> lenBefore[p], ret |-> was_empty])
          /\ pc' = [pc EXCEPT ![p] = IF was_empty THEN next ELSE "idle"]
    /\ holder' = IF holder = p THEN NoOne ELSE holder
    /\ UNCHANGED <<chan, poisoned, receiver, sender, lenBefore, result>>

\* try_dequeue, line 136: self.empty_flag.lock().unwrap()
TryDequeueLock ==
    /\ pc[Consumer] = "idle"
    /\ receiver
    /\ CanLock(Consumer)
    /\ IF poisoned
       THEN /\ pc' = [pc EXCEPT ![Consumer] = "panicked"]
            /\ UNCHANGED holder
       ELSE /\ pc' = [pc EXCEPT ![Consumer] = "deq_locked"]
            /\ holder' = Consumer
    /\ UNCHANGED <<chan, empty_flag, poisoned, receiver, sender, lenBefore,
                   result, log>>

\* try_dequeue, line 138: let result = self.receiver.try_recv()
TryDequeueRecv ==
    /\ pc[Consumer] = "deq_locked"
    /\ result' = TryRecv(chan)
    /\ chan' = AfterRecv(chan)
    /\ pc' = [pc EXCEPT ![Consumer] = "deq_received"]
    /\ UNCHANGED <<empty_flag, holder, poisoned, receiver, sender, lenBefore, log>>

\* try_dequeue, lines 140-144: the flag is set only on Err(Empty);
\* result.ok() is returned and the guard is dropped.
FlagAfterDequeueNever(old, res) == old
FlagAfterDequeueAlways(old, res) == TRUE
FlagAfterDequeueOnNone(old, res) == IF res[1] # "Ok" THEN TRUE ELSE old
FlagAfterDequeue(old, res) == IF res = RecvEmpty THEN TRUE ELSE old

Ok(res) == IF res[1] = "Ok" THEN Some(res[2]) ELSE None

TryDequeueReturn ==
    /\ pc[Consumer] = "deq_received"
    /\ empty_flag' = FlagAfterDequeue(empty_flag, result)
    /\ log' = Append(log, [op |-> "deq", ret |-> Ok(result), why |-> result[1]])
    /\ result' = NoResult
    /\ holder' = IF holder = Consumer THEN NoOne ELSE holder
    /\ pc' = [pc EXCEPT ![Consumer] = "idle"]
    /\ UNCHANGED <<chan, poisoned, receiver, sender, lenBefore>>

\* Clone for SharedEnqueuer, lines 115-122: thread q gets a clone of p's handle.
CloneEnqueuer(p, q) ==
    /\ sender[p]
    /\ ~sender[q]
    /\ pc[q] = "idle"
    /\ sender' = [sender EXCEPT ![q] = TRUE]
    /\ UNCHANGED <<chan, empty_flag, holder, poisoned, receiver, pc, lenBefore,
                   result, log>>

\* A SharedEnqueuer is dropped by the thread that holds it.
DropEnqueuer(p) ==
    /\ sender[p]
    /\ pc[p] = "idle"
    /\ sender' = [sender EXCEPT ![p] = FALSE]
    /\ UNCHANGED <<chan, empty_flag, holder, poisoned, receiver, pc, lenBefore,
                   result, log>>

\* The SharedDequeuer is dropped: the Receiver goes, and with it the items
\* still in the channel.
DropDequeuer ==
    /\ receiver
    /\ pc[Consumer] = "idle"
    /\ receiver' = FALSE
    /\ chan' = <<>>
    /\ UNCHANGED <<empty_flag, holder, poisoned, sender, pc, lenBefore, result, log>>

\* The caller of an enqueue that returned true wakes the dequeue loop.
Wake(p) ==
    /\ pc[p] = "wake"
    /\ wakePending' = TRUE
    /\ pc' = [pc EXCEPT ![p] = "idle"]
    /\ UNCHANGED <<chan, empty_flag, holder, poisoned, receiver, sender,
                   lenBefore, result, log, draining>>

\* The event loop takes the wake and enters its dequeue loop.
TakeWake ==
    /\ wakePending
    /\ ~draining
    /\ pc[Consumer] = "idle"
    /\ wakePending' = FALSE
    /\ draining' = TRUE
    /\ UNCHANGED queueVars

(***************************************************************************)
(* Counter                                                                 *)
(***************************************************************************)
CounterThreads == {"t1", "t2", "t3"}
Modulus == 2 ^ CounterWidth
MaxValue == Modulus - 1
\* Calls made in one behaviour: enough to wrap and to reuse a value.
MaxCalls == Modulus + 1

\* Counter::new(), line 168: AtomicU64::new(1)
CounterNewTwo == 1 + 1
CounterNew == 1

\* AtomicU64::fetch_add(1): the stored value afterwards (it wraps); the
\* value before is what the call returns.
FetchAddLost(v) == v
FetchAdd(v) == (v + 1) % Modulus

CounterInit ==
    /\ counter = CounterNew
    /\ cpc = [t \in CounterThreads |-> "idle"]
    /\ reg = [t \in CounterThreads |-> 0]
    /\ fetched = <<>>
    /\ returned = EmptyBag
    /\ last_returned = None
    /\ overlapped = FALSE

\* next / next_nonzero, lines 182 and 188: self.0.fetch_add(1, Relaxed)
CounterFetch(t, op) ==
    /\ cpc[t] = "idle"
    /\ Len(fetched) < MaxCalls
    /\ reg' = [reg EXCEPT ![t] = counter]
    /\ counter' = FetchAdd(counter)
    /\ fetched' = Append(fetched, counter)
    /\ cpc' = [cpc EXCEPT ![t] = op]
    /\ overlapped' = (overlapped \/ \E u \in CounterThreads : cpc[u] # "idle")
    /\ UNCHANGED <<returned, last_returned>>

\* next, line 182: the fetched value is returned.
NextReturn(t) ==
    /\ cpc[t] = "next"
    /\ returned' = returned (+) SetToBag({reg[t]})
    /\ last_returned' = Some(reg[t])
    /\ cpc' = [cpc EXCEPT ![t] = "idle"]
    /\ UNCHANGED <<counter, reg, fetched, overlapped>>

\* next_nonzero, line 188: NonZeroU64::new(value).unwrap() panics on zero.
NextNonzeroReturn(t) ==
    /\ cpc[t] = "next_nonzero"
    /\ IF reg[t] = 0
       THEN /\ cpc' = [cpc EXCEPT ![t] = "panicked"]
            /\ UNCHANGED <<returned, last_returned>>
       ELSE /\ cpc' = [cpc EXCEPT ![t] = "idle"]
            /\ returned' = returned (+) SetToBag({reg[t]})
            /\ last_returned' = Some(reg[t])
    /\ UNCHANGED <<counter, reg, fetched, overlapped>>

(***************************************************************************)
(* ClickCounter                                                            *)
(***************************************************************************)
\* const MULTI_CLICK_INTERVAL (ms), const MULTI_CLICK_MAX_DISTANCE, u8::MAX.
MULTI_CLICK_INTERVAL == 500
MULTI_CLICK_MAX_DISTANCE == 5
U8Max == 255

\* The instants (ms) the clock takes, the positions clicked, and the values
\* given to set_interval_ms and set_distance.
Instants == {0, 100, 150, 650, 651}
Positions == {<<0, 0>>, <<1, 0>>, <<4, 3>>, <<100, 0>>}
Intervals == {0, MULTI_CLICK_INTERVAL}
Distances == {0, MULTI_CLICK_MAX_DISTANCE}
\* Point::new(f64::MAX, 0.0), scaled to the model's coordinates: farther from
\* every position than any distance.
F64Max == 30000
FarAway == <<F64Max, 0>>

\* Point::distance(a, b) > d, for d >= 0: compared on the squares.
DistanceExceeds(a, b, d) ==
    (a[1] - b[1]) * (a[1] - b[1]) + (a[2] - b[2]) * (a[2] - b[2]) > d * d

\* u8::saturating_add(1)
WrappingAdd1(c) == (c + 1) % (U8Max + 1)
SaturatingAdd1(c) == IF c + 1 > U8Max THEN U8Max ELSE c + 1

\* ClickCounter::new(max_interval, max_distance); ClickCounter::default() is
\* new(MULTI_CLICK_INTERVAL, MULTI_CLICK_MAX_DISTANCE).
ClickInit ==
    /\ now = 0
    /\ max_interval \in Intervals
    /\ max_distance \in Distances
    /\ last_click = now
    /\ click_count = 0
    /\ last_pos = FarAway
    /\ clicked = None
    /\ saturated = FALSE
    /\ prev_click = None
    /\ example = 0

\* Time passes.
Tick(t) ==
    /\ t > now
    /\ now' = t
    /\ UNCHANGED <<max_interval, max_distance, last_click, last_pos,
                   click_count, clicked, saturated, prev_click, example>>

SetIntervalMs(millis) ==
    /\ max_interval' = millis
    /\ UNCHANGED <<max_distance, last_click, last_pos, click_count, now,
                   clicked, saturated, prev_click, example>>

SetDistance(distance) ==
    /\ max_distance' = distance
    /\ UNCHANGED <<max_interval, last_click, last_pos, click_count, now,
                   clicked, saturated, prev_click, example>>

\* The run of spec section 8: the clicks, in order, as <<time, position>>.
ExampleRun == << <<0, <<0, 0>> >>, <<100, <<1, 0>> >>, <<150, <<100, 0>> >> >>
ExampleAfter(click_pos) ==
    LET defaults == /\ max_interval = MULTI_CLICK_INTERVAL
                    /\ max_distance = MULTI_CLICK_MAX_DISTANCE
        k == IF clicked = None THEN 0 ELSE example
    IN IF /\ defaults
          /\ (clicked = None \/ example > 0)
          /\ k < Len(ExampleRun)
          /\ ExampleRun[k + 1] = <<now, click_pos>>
       THEN k + 1
       ELSE 0

\* count_for_click, line 233: the condition under which the count restarts.
ClickResetsAtThreshold(click_pos) ==
    \/ now - last_click >= max_interval
    \/ DistanceExceeds(last_pos, click_pos, max_distance)
ClickResets(click_pos) ==
    \/ now - last_click > max_interval
    \/ DistanceExceeds(last_pos, click_pos, max_distance)

\* count_for_click, lines 227-239.
CountForClick(click_pos) ==
    LET start == IF ClickResets(click_pos) THEN 0 ELSE click_count
        count == SaturatingAdd1(start)
    IN /\ last_click' = now
       /\ last_pos' = click_pos
       /\ click_count' = count
       /\ clicked' = Some(count)
       /\ saturated' = (start = U8Max)
       /\ prev_click' = Some(<<now, click_pos>>)
       /\ example' = ExampleAfter(click_pos)
       /\ UNCHANGED <<max_interval, max_distance, now>>

(***************************************************************************)
(* xkb: the native library, as the wrapper calls it                        *)
(***************************************************************************)
Kinds == {"Context", "Keymap", "State"}

\* The six names State::new looks up, lines 220-225.
ModNames == {"XKB_MOD_NAME_CTRL", "XKB_MOD_NAME_SHIFT", "XKB_MOD_NAME_ALT",
             "XKB_MOD_NAME_LOGO", "XKB_MOD_NAME_CAPS", "XKB_MOD_NAME_NUM"}

\* What xkb_keymap_mod_get_index returns for a name the keymap does not
\* define: 0xffffffff in the library, the largest integer here.
XKB_MOD_INVALID == 2147483647

\* Two keymaps: one defines the eight core modifiers and so all six names,
\* the other defines three modifiers only.
FullKeymap ==
    [num_mods |-> 8,
     mod_index |-> [n \in ModNames |->
        CASE n = "XKB_MOD_NAME_SHIFT" -> 0
          [] n = "XKB_MOD_NAME_CAPS" -> 1
          [] n = "XKB_MOD_NAME_CTRL" -> 2
          [] n = "XKB_MOD_NAME_ALT" -> 3
          [] n = "XKB_MOD_NAME_NUM" -> 4
          [] n = "XKB_MOD_NAME_LOGO" -> 6]]
PartialKeymap ==
    [num_mods |-> 3,
     mod_index |-> [n \in ModNames |->
        CASE n = "XKB_MOD_NAME_SHIFT" -> 0
          [] n = "XKB_MOD_NAME_CAPS" -> 1
          [] n = "XKB_MOD_NAME_CTRL" -> 2
          [] OTHER -> XKB_MOD_INVALID]]
NoKeymap == [num_mods |-> 0, mod_index |-> [n \in ModNames |-> XKB_MOD_INVALID]]
\* A pointer is NULL or points at one value.
NULL == <<>>
Ptr(x) == <<x>>

\* A buffer is a sequence of bytes; a nonzero byte abbreviates a piece of
\* keymap text. xkb_keymap_new_from_string reads the text up to the first
\* zero byte and compiles it, returning NULL for text it cannot compile.
Bytes == 0..2
CStr(buffer) ==
    LET zeros == {i \in 1..Len(buffer) : buffer[i] = 0}
        first == CHOOSE i \in zeros : \A j \in zeros : i <= j
    IN SubSeq(buffer, 1, first - 1)
XkbKeymapNewFromString(text) ==
    CASE text = <<1>> -> Ptr(FullKeymap)
      [] text = <<2>> -> Ptr(PartialKeymap)
      [] OTHER -> NULL

\* xkb_keymap_mod_get_index, line 216.
XkbKeymapModGetIndex(km, name) == km.mod_index[name]

\* A modifier mask is the set of the positions of its one bits.
\* xkb_state_new: every component zero.
NewState ==
    [base_mods |-> {}, latched_mods |-> {}, locked_mods |-> {},
     base_layout |-> 0, latched_layout |-> 0, locked_layout |-> 0]
NoState == "no state"

\* xkb_state_update_mask, lines 233-241: the six components are replaced, the
\* modifier masks cut to the modifiers of the keymap.
XkbStateUpdateMask(km, mods) ==
    LET valid == 0..(km.num_mods - 1)
    IN [base_mods |-> mods.base_mods \cap valid,
        latched_mods |-> mods.latched_mods \cap valid,
        locked_mods |-> mods.locked_mods \cap valid,
        base_layout |-> mods.base_layout,
        latched_layout |-> mods.latched_layout,
        locked_layout |-> mods.locked_layout]

\* XKB_STATE_MODS_EFFECTIVE: depressed, latched or locked.
Effective(st) == st.base_mods \cup st.latched_mods \cup st.locked_mods

\* xkb_state_mod_index_is_active, line 267: 1 if the modifier is active, 0 if
\* it is not, -1 if the index is not a modifier of the keymap.
XkbStateModIndexIsActive(km, st, idx) ==
    IF idx >= km.num_mods THEN -1
    ELSE IF idx \in Effective(st) THEN 1 ELSE 0

\* xkb_state_key_get_one_sym, line 296: the keysym of the key at the level the
\* effective modifiers select (Shift, bit 0, selects the second level), made
\* upper case when Lock, bit 1, is effective; 0 (NoSymbol) for a key the
\* keymap does not have. Keys: 36 Return, 38 a/A, 50 Shift_L.
KeySyms ==
    (36 :> <<65293, 65293>>) @@ (38 :> <<97, 65>>) @@ (50 :> <<65505, 65505>>)
XkbKeysymToUpper(sym) == IF sym = 97 THEN 65 ELSE sym
XkbStateKeyGetOneSym(st, scancode) ==
    IF scancode \notin DOMAIN KeySyms THEN 0
    ELSE LET level == IF 0 \in Effective(st) THEN 2 ELSE 1
             sym == KeySyms[scancode][level]
         IN IF 1 \in Effective(st) THEN XkbKeysymToUpper(sym) ELSE sym

\* xkb_keysym_to_utf32, line 308: the code point of the keysym (Return is
\* U+000D), 0 for a keysym without one.
XkbKeysymToUtf32(keysym) ==
    CASE keysym = 97 -> 97
      [] keysym = 65 -> 65
      [] keysym = 65293 -> 13
      [] OTHER -> 0

(***************************************************************************)
(* xkb: Context, Keymap and State                                          *)
(***************************************************************************)
XkbInit ==
    /\ refcnt = [k \in Kinds |-> 0]
    /\ handles = [k \in Kinds |-> 0]
    /\ native = [k \in Kinds |-> "absent"]
    /\ keymap = NoKeymap
    /\ xkb_state = NoState
    /\ cached = {}
    /\ pushed = None
    /\ event = None
    /\ compiled = None

\* xkb_context_ref, xkb_keymap_ref, xkb_state_ref: one more reference.
XkbRefNothing(n) == n
XkbRef(n) == n + 1

\* xkb_context_unref, xkb_keymap_unref, xkb_state_unref: one reference less;
\* the object is released when the last one goes, and an unref of a released
\* object is a misuse of the library.
XkbUnref(n) == IF n > 0 THEN n - 1 ELSE 0
NativeAfterUnref(status, n) ==
    IF status # "live" THEN "misused"
    ELSE IF n = 1 THEN "released" ELSE "live"

\* A new native object of kind k, held by one wrapper.
Acquire(k) ==
    /\ refcnt' = [refcnt EXCEPT ![k] = 1]
    /\ handles' = [handles EXCEPT ![k] = 1]
    /\ native' = [native EXCEPT ![k] = "live"]

\* Context::new, lines 44-46.
ContextNew ==
    /\ handles["Context"] = 0
    /\ Acquire("Context")
    /\ compiled' = None
    /\ UNCHANGED <<keymap, xkb_state, cached, pushed, event>>

\* Clone for State, line 322: the clone carries self.mods.
CloneModsDefault(m) == [f \in DOMAIN m |-> 0]
CloneMods(m) == m

\* Clone for Context, Keymap, State: lines 150-154, 173-177, 318-325.
Clone(k) ==
    /\ handles[k] > 0
    /\ handles[k] < MaxHandles
    /\ refcnt' = [refcnt EXCEPT ![k] = XkbRef(@)]
    /\ handles' = [handles EXCEPT ![k] = @ + 1]
    /\ IF k = "State"
       THEN \E m \in cached : cached' = cached \cup {CloneMods(m)}
       ELSE UNCHANGED cached
    /\ compiled' = None
    /\ UNCHANGED <<native, keymap, xkb_state, pushed, event>>

\* Drop for Context, Keymap, State: lines 156-162, 179-185, 327-333.
Drop(k) ==
    /\ handles[k] > 0
    /\ refcnt' = [refcnt EXCEPT ![k] = XkbUnref(@)]
    /\ native' = [native EXCEPT ![k] = NativeAfterUnref(@, refcnt[k])]
    /\ handles' = [handles EXCEPT ![k] = @ - 1]
    /\ IF k = "State" /\ handles[k] = 1
       THEN /\ cached' = {}
            /\ xkb_state' = NoState
            /\ pushed' = None
            /\ event' = None
       ELSE UNCHANGED <<cached, xkb_state, pushed, event>>
    /\ compiled' = None
    /\ UNCHANGED keymap

\* keymap_from_slice, lines 110-128.
Buffers == UNION {[1..n -> Bytes] : n \in 0..MaxBuf}
AnyZero(buffer) == \E i \in 1..Len(buffer) : buffer[i] = 0
KeymapFromSlice(buffer) ==
    /\ handles["Context"] > 0
    /\ handles["Keymap"] = 0
    /\ handles["State"] = 0
    /\ IF ~AnyZero(buffer)
       THEN /\ compiled' = Some([buffer |-> buffer, outcome |->
                    "panic: expects a null-terminated string"])
            /\ UNCHANGED <<refcnt, handles, native, keymap>>
       ELSE LET km == XkbKeymapNewFromString(CStr(buffer))
            IN IF km = NULL
               THEN /\ compiled' = Some([buffer |-> buffer, outcome |->
                            "panic: keymap.is_null()"])
                    /\ UNCHANGED <<refcnt, handles, native, keymap>>
               ELSE /\ compiled' = Some([buffer |-> buffer, outcome |-> "Keymap"])
                    /\ keymap' = km[1]
                    /\ Acquire("Keymap")
    /\ UNCHANGED <<xkb_state, cached, pushed, event>>

\* State::new, lines 213-229.
StateNew(km) ==
    [control |-> XkbKeymapModGetIndex(km, "XKB_MOD_NAME_CTRL"),
     shift |-> XkbKeymapModGetIndex(km, "XKB_MOD_NAME_SHIFT"),
     alt |-> XkbKeymapModGetIndex(km, "XKB_MOD_NAME_ALT"),
     super_ |-> XkbKeymapModGetIndex(km, "XKB_MOD_NAME_LOGO"),
     caps_lock |-> XkbKeymapModGetIndex(km, "XKB_MOD_NAME_CAPS"),
     num_lock |-> XkbKeymapModGetIndex(km, "XKB_MOD_NAME_NUM")]

\* state_from_keymap, lines 99-105: None when xkb_state_new returns NULL.
StateFromKeymap(created) ==
    /\ handles["Context"] > 0
    /\ handles["Keymap"] > 0
    /\ handles["State"] = 0
    /\ IF created
       THEN /\ Acquire("State")
            /\ xkb_state' = NewState
            /\ cached' = {StateNew(keymap)}
       ELSE UNCHANGED <<refcnt, handles, native, xkb_state, cached>>
    /\ compiled' = None
    /\ UNCHANGED <<keymap, pushed, event>>

\* The ActiveModifiers values pushed: nothing; Shift pressed; Shift latched;
\* Lock locked in the second layout; Control and Alt pressed; NumLock pressed
\* and Logo locked.
ActiveModifiers(base, latched, locked, layout) ==
    [base_mods |-> base, latched_mods |-> latched, locked_mods |-> locked,
     base_layout |-> 0, latched_layout |-> 0, locked_layout |-> layout]
Masks ==
    {ActiveModifiers({}, {}, {}, 0), ActiveModifiers({0}, {}, {}, 0),
     ActiveModifiers({}, {0}, {}, 0), ActiveModifiers({}, {}, {1}, 1),
     ActiveModifiers({2, 3}, {}, {}, 0), ActiveModifiers({4}, {}, {6}, 0)}

\* update_xkb_state, lines 231-243.
UpdateXkbState(mods) ==
    /\ handles["State"] > 0
    /\ xkb_state' = XkbStateUpdateMask(keymap, mods)
    /\ pushed' = Some(mods)
    /\ event' = None
    /\ compiled' = None
    /\ UNCHANGED <<refcnt, handles, native, keymap, cached>>

(***************************************************************************)
(* xkb: key translation                                                    *)
(***************************************************************************)
\* Scancodes: Return, a, Shift_L, a key the keymap does not have, and one
\* beyond the 16-bit range whose low 16 bits are the scancode of a.
Scancodes == {36, 38, 50, 200, 65536 + 38}
KeyStates == {"Down", "Up"}

\* u16::try_from(scancode), line 246.
U16Truncate(scancode) == Some(scancode % 65536)
U16TryFrom(scancode) == IF scancode <= 65535 THEN Some(scancode) ELSE None

\* hardware_keycode_to_code and code_to_location of backend::shared.
HardwareKeycodeToCode(keycode) ==
    CASE keycode = 36 -> "Enter"
      [] keycode = 38 -> "KeyA"
      [] keycode = 50 -> "ShiftLeft"
      [] OTHER -> "Unidentified"
CodeToLocation(code) == IF code = "ShiftLeft" THEN "Left" ELSE "Standard"

\* keyboard_types::Key.
KeyNamed(name) == <<"Named", name>>
KeyCharacter(s) == <<"Character", s>>
KeyUnidentified == <<"Unidentified">>

\* keycodes::map_key: the table from keysyms to named keys.
MapKey(keysym) ==
    CASE keysym = 65293 -> KeyNamed("Enter")
      [] keysym = 65505 -> KeyNamed("Shift")
      [] OTHER -> KeyUnidentified

\* key_get_utf8, lines 302-315: None for code point 0, else the string of
\* the one character (a string is the sequence of its code points).
KeyGetUtf8(keysym) ==
    LET chr == XkbKeysymToUtf32(keysym)
    IN IF chr = 0 THEN None ELSE Some(<<chr>>)

\* get_logical_key, lines 284-293.
GetLogicalKeyUtf8First(st, scancode) ==
    LET keysym == XkbStateKeyGetOneSym(st, scancode)
    IN IF KeyGetUtf8(keysym) # None THEN KeyCharacter(KeyGetUtf8(keysym)[1])
       ELSE MapKey(keysym)
GetLogicalKey(st, scancode) ==
    LET keysym == XkbStateKeyGetOneSym(st, scancode)
        key == MapKey(keysym)
    IN IF key = KeyUnidentified /\ KeyGetUtf8(keysym) # None
       THEN KeyCharacter(KeyGetUtf8(keysym)[1])
       ELSE key

\* key_event, lines 259-266: the cached index and the flag of each modifier.
Modifiers == {"CONTROL", "SHIFT", "SUPER", "ALT", "CAPS_LOCK", "NUM_LOCK"}
ModPairs(m) ==
    {<<m.control, "CONTROL">>, <<m.shift, "SHIFT">>, <<m.super_, "SUPER">>,
     <<m.alt, "ALT">>, <<m.caps_lock, "CAPS_LOCK">>, <<m.num_lock, "NUM_LOCK">>}

\* key_event, lines 255-270: the flags of the pairs the library reports
\* with a value other than 0.
ActiveMods(km, st, m) ==
    {p[2] : p \in {q \in ModPairs(m) :
                     XkbStateModIndexIsActive(km, st, q[1]) # 0}}

\* key_event, lines 245-282: the KeyEvent returned.
KeyEventOf(km, st, m, scancode, state, repeat) ==
    LET code == IF U16TryFrom(scancode) # None
                THEN HardwareKeycodeToCode(U16TryFrom(scancode)[1])
                ELSE "Unidentified"
    IN [state |-> state,
        key |-> GetLogicalKey(st, scancode),
        code |-> code,
        location |-> CodeToLocation(code),
        mods |-> ActiveMods(km, st, m),
        repeat |-> repeat,
        is_composing |-> FALSE]

\* key_event, lines 245-282: what the calls made on self.state leave in it.
\* xkb_state_key_get_one_sym and xkb_state_mod_index_is_active only read.
StateAfterUpdateKey(st, scancode, state) ==
    IF scancode = 50
    THEN [st EXCEPT !.base_mods = IF state = "Down" THEN @ \cup {0} ELSE @ \ {0}]
    ELSE st
StateAfterKeyEvent(st, scancode, state) == st

\* key_event on a State wrapper whose cached indices are m.
KeyEvent(m, scancode, state, repeat) ==
    /\ handles["State"] > 0
    /\ m \in cached
    /\ event' = Some([scancode |-> scancode, state |-> state, repeat |-> repeat,
                      mods |-> m,
                      ev |-> KeyEventOf(keymap, xkb_state, m, scancode, state,
                                        repeat)])
    /\ xkb_state' = StateAfterKeyEvent(xkb_state, scancode, state)
    /\ compiled' = None
    /\ UNCHANGED <<refcnt, handles, native, keymap, cached, pushed>>

(***************************************************************************)
(* Specifications                                                          *)
(***************************************************************************)
Init == QueueInit /\ WakeInit /\ CounterInit /\ ClickInit /\ XkbInit

\* The queue under any interleaving of its operations, clones and drops.
QueueFrame == UNCHANGED <<wakeVars, counterVars, clickVars, xkbVars>>

Next ==
    \/ \E p \in Producers : MayStart /\ EnqueueLock(p) /\ QueueFrame
    \/ \E p \in Producers : EnqueueSend(p) /\ QueueFrame
    \/ \E p \in Producers : EnqueueReturn(p, "idle") /\ QueueFrame
    \/ MayStart /\ TryDequeueLock /\ QueueFrame
    \/ TryDequeueRecv /\ QueueFrame
    \/ TryDequeueReturn /\ QueueFrame
    \/ \E p, q \in Producers : CloneEnqueuer(p, q) /\ QueueFrame
    \/ \E p \in Producers : DropEnqueuer(p) /\ QueueFrame
    \/ DropDequeuer /\ QueueFrame

Spec == Init /\ [][Next]_vars

\* The counter called from CounterThreads.
CounterFrame == UNCHANGED <<queueVars, wakeVars, clickVars, xkbVars>>

CounterNext ==
    \/ \E t \in CounterThreads : CounterFetch(t, "next") /\ CounterFrame
    \/ \E t \in CounterThreads : CounterFetch(t, "next_nonzero") /\ CounterFrame
    \/ \E t \in CounterThreads : NextReturn(t) /\ CounterFrame
    \/ \E t \in CounterThreads : NextNonzeroReturn(t) /\ CounterFrame

SpecCounter == Init /\ [][CounterNext]_vars

\* The queue as the event loop uses it: the caller of an enqueue that returned
\* true wakes the loop, and the loop, once woken, calls try_dequeue until it
\* returns None. The dequeuer is kept for as long as the loop runs.
WakeFrame == UNCHANGED <<counterVars, clickVars, xkbVars>>
LoopTryDequeueLock ==
    draining /\ TryDequeueLock /\ UNCHANGED wakeVars /\ WakeFrame
LoopTryDequeueRecv == TryDequeueRecv /\ UNCHANGED wakeVars /\ WakeFrame
LoopTryDequeueReturn ==
    /\ TryDequeueReturn
    /\ draining' = (Ok(result) # None)
    /\ UNCHANGED wakePending
    /\ WakeFrame
LoopTakeWake == TakeWake /\ WakeFrame
CallerSend(p) == EnqueueSend(p) /\ UNCHANGED wakeVars /\ WakeFrame
CallerReturn(p) == EnqueueReturn(p, "wake") /\ UNCHANGED wakeVars /\ WakeFrame
CallerWake(p) == Wake(p) /\ WakeFrame

WakeNext ==
    \/ \E p \in Producers :
          MayStart /\ EnqueueLock(p) /\ UNCHANGED wakeVars /\ WakeFrame
    \/ \E p \in Producers : CallerSend(p)
    \/ \E p \in Producers : CallerReturn(p)
    \/ \E p \in Producers : CallerWake(p)
    \/ LoopTakeWake
    \/ LoopTryDequeueLock
    \/ LoopTryDequeueRecv
    \/ LoopTryDequeueReturn
    \/ \E p, q \in Producers : CloneEnqueuer(p, q) /\ UNCHANGED wakeVars /\ WakeFrame
    \/ \E p \in Producers : DropEnqueuer(p) /\ UNCHANGED wakeVars /\ WakeFrame

\* A thread inside enqueue or try_dequeue runs on, a caller told to wake does
\* so, and the event loop reacts to a wake: weak fairness on each such step.
\* Starting an enqueue, cloning and dropping are left to the callers.
WakeFairness ==
    /\ \A p \in Producers :
          WF_vars(CallerSend(p)) /\ WF_vars(CallerReturn(p)) /\ WF_vars(CallerWake(p))
    /\ WF_vars(LoopTakeWake)
    /\ WF_vars(LoopTryDequeueLock)
    /\ WF_vars(LoopTryDequeueRecv)
    /\ WF_vars(LoopTryDequeueReturn)

SpecWake == Init /\ [][WakeNext]_vars /\ WakeFairness

\* One ClickCounter, its clock, and its three operations.
ClickFrame == UNCHANGED <<queueVars, wakeVars, counterVars, xkbVars>>

ClickNext ==
    \/ \E t \in Instants : Tick(t) /\ ClickFrame
    \/ \E m \in Intervals : SetIntervalMs(m) /\ ClickFrame
    \/ \E d \in Distances : SetDistance(d) /\ ClickFrame
    \/ \E pos \in Positions : CountForClick(pos) /\ ClickFrame

SpecClick == Init /\ [][ClickNext]_vars

\* One Context, Keymap and State at a time, each with its clones, and the
\* State's updates and key events.
XkbFrame == UNCHANGED <<queueVars, wakeVars, counterVars, clickVars>>

XkbNext ==
    \/ ContextNew /\ XkbFrame
    \/ \E k \in Kinds : Clone(k) /\ XkbFrame
    \/ \E k \in Kinds : Drop(k) /\ XkbFrame
    \/ \E buffer \in Buffers : KeymapFromSlice(buffer) /\ XkbFrame
    \/ \E created \in BOOLEAN : StateFromKeymap(created) /\ XkbFrame
    \/ \E mods \in Masks : UpdateXkbState(mods) /\ XkbFrame
    \/ \E m \in cached, scancode \in Scancodes, state \in KeyStates,
          repeat \in BOOLEAN :
          KeyEvent(m, scancode, state, repeat) /\ XkbFrame

SpecXkb == Init /\ [][XkbNext]_vars

(***************************************************************************)
(* Properties of shared_queue                                              *)
(***************************************************************************)
IsEnq(i) == log[i].op = "enq"
IsDeqNone(i) == log[i].op = "deq" /\ log[i].ret = None
IsDeqSome(i) == log[i].op = "deq" /\ log[i].ret # None

\* The last try_dequeue before operation i that returned None (0: none did).
NonesBefore(i) == {j \in 1..(i - 1) : IsDeqNone(j)}
LastNoneBefore(i) ==
    IF NonesBefore(i) = {} THEN 0
    ELSE CHOOSE j \in NonesBefore(i) : \A k \in NonesBefore(i) : k <= j
EnqueueSinceNone(i) == \E j \in (LastNoneBefore(i) + 1)..(i - 1) : IsEnq(j)

C2_TrueMeansWasEmpty ==
    /\ (holder = NoOne /\ empty_flag) => chan = <<>>
    /\ \A i \in DOMAIN log : (IsEnq(i) /\ log[i].ret) => log[i].lenBefore = 0

\* An enqueue has returned true after items went through the queue, and the
\* queue is again idle with the flag true.
C2_Witness ==
    /\ holder = NoOne /\ empty_flag /\ receiver
    /\ \E i, j \in DOMAIN log : i < j /\ IsDeqSome(i) /\ IsEnq(j) /\ log[j].ret

RECURSIVE Collect(_, _)
Collect(i, kind) ==
    IF i = 0 THEN <<>>
    ELSE IF kind = "enq" /\ IsEnq(i) THEN Append(Collect(i - 1, kind), log[i].item)
    ELSE IF kind = "deq" /\ IsDeqSome(i) THEN Append(Collect(i - 1, kind), log[i].ret[1])
    ELSE Collect(i - 1, kind)
Enqueued == Collect(Len(log), "enq")
Dequeued == Collect(Len(log), "deq")

InChannel(it) == \E i \in DOMAIN chan : chan[i] = it
WasDequeued(it) ==
    \/ result = RecvOk(it)
    \/ \E i \in DOMAIN log : IsDeqSome(i) /\ log[i].ret = Some(it)

\* A wake is owed or being served: some caller was (or is about to be) told
\* to wake the loop and has not yet done so, a wake is pending, or the loop
\* is running.
WakeOwed ==
    \/ wakePending
    \/ draining
    \/ \E p \in Producers : pc[p] = "wake" \/ (pc[p] = "enq_sent" /\ empty_flag)

\* C4: with the loop dequeuing until None after every wake, no item stays in
\* the channel while no wake is owed and the loop is idle, and every item
\* enqueued is eventually dequeued: an enqueued item is in the channel until
\* try_dequeue has taken it, and a channel holding items is eventually emptied.
C4_NoMissedWake ==
    /\ [](chan # <<>> => WakeOwed)
    /\ [](\A i \in DOMAIN log :
            IsEnq(i) => (InChannel(log[i].item) \/ WasDequeued(log[i].item)))
    /\ (chan # <<>>) ~> (chan = <<>>)

\* The loop has gone idle after a drain, was woken again by a later enqueue
\* that returned true, and has dequeued that item too.
C4_Witness ==
    \E i, j, k \in DOMAIN log :
        /\ i < j /\ j < k
        /\ IsDeqNone(i)
        /\ IsEnq(j) /\ log[j].ret
        /\ IsDeqSome(k) /\ log[k].ret = Some(log[j].item)

\* C5: the items dequeued are a prefix of the items in the order their
\* enqueue calls completed, none is returned twice, and each producer's
\* items come out in the order it enqueued them.
C5_Fifo ==
    /\ Len(Dequeued) <= Len(Enqueued)
    /\ \A i \in DOMAIN Dequeued : Dequeued[i] = Enqueued[i]
    /\ \A i, j \in DOMAIN Dequeued : i < j => Dequeued[i] # Dequeued[j]
    /\ \A i, j \in DOMAIN Dequeued :
          (i < j /\ Dequeued[i][1] = Dequeued[j][1]) => Dequeued[i][2] < Dequeued[j][2]

\* Three items of two producers have been dequeued, two of them one
\* producer's, with the other producer's in between.
C5_Witness ==
    /\ Len(Dequeued) >= 3
    /\ Dequeued[1][1] = Dequeued[3][1]
    /\ Dequeued[1][1] # Dequeued[2][1]

\* C6, as claimed: no enqueue and no try_dequeue ever panics, whatever has
\* been cloned or dropped.
C6_NoFailureModes == \A t \in QueueThreads : pc[t] # "panicked"

(***************************************************************************)
(* Properties of Counter                                                   *)
(***************************************************************************)
\* C7: before the counter wraps, the k-th call (in the order of the atomic
\* fetch_adds) gets k, no two calls return the same value, and calls made one
\* after the other return 1, 2, 3, ...: the n-th of them returns n.
C7_KthCallReturnsK ==
    /\ \A k \in DOMAIN fetched : k <= MaxValue => fetched[k] = k
    /\ Len(fetched) <= MaxValue =>
          /\ \A v \in BagToSet(returned) : CopiesIn(v, returned) = 1
          /\ (~overlapped /\ last_returned # None) =>
                last_returned = Some(BagCardinality(returned))

\* Before the wrap, two overlapping calls have returned in the other order
\* than they fetched, and a later call has returned after them.
C7_Witness ==
    /\ Len(fetched) <= MaxValue
    /\ overlapped
    /\ BagCardinality(returned) >= 3
    /\ last_returned # None
    /\ last_returned[1] < BagCardinality(returned)

\* C8, as claimed: next_nonzero never fetches zero, so its unwrap never
\* panics, after any number of calls.
C8_NextNonzeroNeverPanics == \A t \in CounterThreads : cpc[t] # "panicked"

\* The k-th fetch_add wrapped the stored value past its maximum.
Overflows(k) == fetched[k] + 1 > MaxValue

C10_CountInRange ==
    clicked # None =>
        /\ clicked[1] \in 1..U8Max
        /\ saturated => clicked[1] = U8Max

\* A click has continued a run whose count was already 255.
C10_Witness == saturated /\ clicked = Some(U8Max)

\* What the claim says a click at click_pos returns, from the history of the
\* calls: 1 on a fresh counter or when a threshold is exceeded since the call
\* just before, else one more than that call returned, at most 255.
Min(a, b) == IF a < b THEN a ELSE b
ClaimedCount(click_pos) ==
    IF prev_click = None THEN 1
    ELSE IF \/ now - prev_click[1][1] > max_interval
            \/ DistanceExceeds(prev_click[1][2], click_pos, max_distance)
         THEN 1
         ELSE Min(clicked[1] + 1, U8Max)

\* C11: count_for_click compares each click with the call just before it:
\* it returns 1 when the elapsed time or the distance is strictly greater
\* than the current threshold (and on a fresh counter), else
\* min(previous return + 1, 255); and the run (0,0)@0, (1,0)@100 ms,
\* (100,0)@150 ms with the defaults returns 1, 2, 1.
C11_CountForClick ==
    /\ [][\A pos \in Positions :
            CountForClick(pos) => clicked' = Some(ClaimedCount(pos))]_vars
    /\ [](example = 1 => clicked = Some(1))
    /\ [](example = 2 => clicked = Some(2))
    /\ [](example = 3 => clicked = Some(1))

\* The example run has been followed to its end.
C11_Witness == example = 3 /\ clicked = Some(1)

(***************************************************************************)
(* Properties of try_dequeue                                               *)
(***************************************************************************)
\* C17 as stated: whenever try_dequeue returns None the empty flag is true
\* when it returns, and whenever it returns an item the flag is unchanged.
C17_NoneLeavesFlagTrue ==
    [][TryDequeueReturn =>
          IF Ok(result) = None
          THEN empty_flag' = TRUE
          ELSE empty_flag' = empty_flag]_vars

\* C17, amended: try_dequeue leaves the flag true when it returns None
\* because the channel was empty with an enqueuer still alive; it leaves the
\* flag as it was when it returns an item (the last one included) and when
\* it returns None because every enqueuer has been dropped.
C17_EmptySetsFlagElseUntouched ==
    [][TryDequeueReturn =>
          /\ (result = RecvEmpty => empty_flag' = TRUE)
          /\ (result = RecvDisconnected => empty_flag' = empty_flag)
          /\ (Ok(result) # None => empty_flag' = empty_flag)
          /\ (Ok(result) = None => result \in {RecvEmpty, RecvDisconnected})]_vars

\* try_dequeue has returned None with every enqueuer dropped, and the flag
\* is still false.
C17_Witness ==
    /\ log # <<>>
    /\ log[Len(log)].op = "deq"
    /\ log[Len(log)].why = "Disconnected"
    /\ empty_flag = FALSE
    /\ pc[Consumer] = "idle"

(***************************************************************************)
(* Properties of the xkb State                                             *)
(***************************************************************************)
\* The modifier flags whose cached index, in the ModsIndices m, is absent.
AbsentFlags(m) == {p[2] : p \in {q \in ModPairs(m) : q[1] = XKB_MOD_INVALID}}

\* C12: no KeyEvent reports as active a modifier whose cached index is the
\* absent sentinel, whatever the mask pushed and the scancode.
C12_AbsentNeverActive ==
    event # None => event[1].ev.mods \cap AbsentFlags(event[1].mods) = {}

\* What the claim says key_event reports after update_xkb_state(mask): the
\* modifiers whose cached index is present and is pressed, latched or locked
\* in the mask, and the key the scancode has under the mask.
ClaimedMods(m, mask) ==
    {p[2] : p \in {q \in ModPairs(m) :
        /\ q[1] # XKB_MOD_INVALID
        /\ q[1] \in mask.base_mods \cup mask.latched_mods \cup mask.locked_mods}}
ClaimedKey(mask, scancode) ==
    GetLogicalKey(XkbStateUpdateMask(keymap, mask), scancode)

\* C13: every KeyEvent made after update_xkb_state(mask), up to the next
\* update, has exactly the modifiers whose cached index is present and
\* effectively active under that mask and the key resolved under that mask,
\* whatever was pushed earlier; with the Shift bit pressed in the mask the
\* event has SHIFT and the key of scancode 38 is the shifted "A".
C13_ReflectsLastPushed ==
    (event # None /\ pushed # None) =>
        /\ event[1].ev.mods = ClaimedMods(event[1].mods, pushed[1])
        /\ event[1].ev.key = ClaimedKey(pushed[1], event[1].scancode)
        /\ (0 \in pushed[1].base_mods =>
               /\ "SHIFT" \in event[1].ev.mods
               /\ (event[1].scancode = 38 =>
                      event[1].ev.key = KeyCharacter(<<65>>)))

\* C14: the key of a KeyEvent is the named key of the keysym when the table
\* has one, whatever the keysym's code point; else the one-character string
\* of its code point when that is not 0; else Unidentified. Return (table
\* entry, U+000D) gives Enter, a (no entry, U+0061) gives "a", a key without
\* a symbol gives Unidentified.
C14_KeyPrecedence ==
    event # None =>
        LET keysym == XkbStateKeyGetOneSym(xkb_state, event[1].scancode)
            chr == XkbKeysymToUtf32(keysym)
            key == event[1].ev.key
        IN /\ MapKey(keysym) # KeyUnidentified => key = MapKey(keysym)
           /\ MapKey(keysym) = KeyUnidentified /\ chr # 0 =>
                  key = KeyCharacter(<<chr>>)
           /\ MapKey(keysym) = KeyUnidentified /\ chr = 0 =>
                  key = KeyUnidentified
           /\ (keysym = 65293 => key = KeyNamed("Enter"))
           /\ (keysym = 97 => key = KeyCharacter(<<97>>))
           /\ (keysym = 0 => key = KeyUnidentified)

\* A key_event for Return: its keysym is in the table and has a code point.
C14_Witness ==
    /\ event # None
    /\ event[1].scancode = 36
    /\ XkbKeysymToUtf32(XkbStateKeyGetOneSym(xkb_state, 36)) # 0
    /\ event[1].ev.key = KeyNamed("Enter")

NullTerminated(buffer) == Len(buffer) > 0 /\ buffer[Len(buffer)] = 0

\* C16: keymap_from_slice panics for every buffer that is not
\* null-terminated and whenever the library returns NULL; otherwise it
\* returns a Keymap on a live native keymap, never anything else.
C16_FatalUnlessNullTerminated ==
    compiled # None =>
        LET buffer == compiled[1].buffer
            outcome == compiled[1].outcome
            panics == {"panic: expects a null-terminated string",
                       "panic: keymap.is_null()"}
        IN /\ ~NullTerminated(buffer) => outcome \in panics
           /\ (AnyZero(buffer) /\ XkbKeymapNewFromString(CStr(buffer)) = NULL) =>
                  outcome \in panics
           /\ outcome \in panics \cup {"Keymap"}
           /\ outcome = "Keymap" => native["Keymap"] = "live"

\* C18: the cached modifier indices of a State are those State::new found in
\* the keymap, in every clone, and no step of the State's life changes them:
\* not update_xkb_state, not key_event, not clone.
C18_CachedIndicesFixed ==
    /\ [](handles["State"] > 0 => cached = {StateNew(keymap)})
    /\ [][(handles["State"] > 0 /\ handles'["State"] > 0) => cached' = cached]_vars

\* Two State wrappers are live after an update_xkb_state and a key_event.
C18_Witness ==
    /\ handles["State"] = 2
    /\ pushed # None
    /\ event # None
    /\ cached = {StateNew(keymap)}

C20_EventCarriesArguments ==
    event # None =>
        /\ event[1].ev.is_composing = FALSE
        /\ event[1].ev.state = event[1].state
        /\ event[1].ev.repeat = event[1].repeat
        /\ (event[1].scancode > 65535 => event[1].ev.code = "Unidentified")

\* A repeated release with a scancode beyond 16 bits.
C20_Witness ==
    /\ event # None
    /\ event[1].scancode > 65535
    /\ event[1].ev.code = "Unidentified"
    /\ event[1].ev.repeat = TRUE
    /\ event[1].ev.state = "Up"

====
